---------------------------- MODULE Spec2Model ----------------------------
(***************************************************************************)
(* Gaussian-process regression (src/src/gp.rs) and the interactive         *)
(* application that holds one fitted model (src/src/app.rs).               *)
(*                                                                         *)
(* Two specifications share this module:                                   *)
(*   SpecGP  a caller of the library: it picks the arguments of            *)
(*           GaussianProcess::new, calls it once, then calls predict.      *)
(*   Spec    the application: one step per App::update call (one frame).   *)
(*                                                                         *)
(* f64 is modelled as a decimal floating-point number with Digits          *)
(* significant digits, an unbounded exponent, NaN and the two infinities.  *)
(* Every operation rounds its exact result to Digits digits, as IEEE       *)
(* arithmetic rounds to 53 bits. The sign of zero is not kept.             *)
(***************************************************************************)
EXTENDS Integers, Sequences, FiniteSets, TLC

(* ------------------------------ f64 ------------------------------------ *)

\* Significant decimal digits kept by the modelled f64.
Digits == 8

MantLo == 10 ^ (Digits - 1)

MantHi == 10 ^ Digits

HalfBase == 10 ^ (Digits \div 2)

\* A finite value is s * m * 10^e with m = 0, or MantLo <= m < MantHi.
Fin(s, m, e) == [k |-> "fin", s |-> s, m |-> m, e |-> e]

NaN == [k |-> "nan", s |-> 1, m |-> 0, e |-> 0]

Inf(s) == [k |-> "inf", s |-> s, m |-> 0, e |-> 0]

Zero == Fin(1, 0, 0)

IsNaN(a) == a.k = "nan"

IsInf(a) == a.k = "inf"

IsFinite(a) == a.k = "fin"

\* num_traits::Zero::is_zero: false for NaN.
IsZero(a) == a.k = "fin" /\ a.m = 0

\* Rounds s * (m + f) * 10^e, 0 <= f < 1 and f # 0 iff st = 1, to Digits digits
\* (ties to even).
RECURSIVE Norm(_, _, _, _)
Norm(s, m, e, st) ==
    IF m = 0 THEN Zero
    ELSE IF m < MantLo THEN Norm(s, m * 10, e - 1, st)
    ELSE IF m < MantHi THEN Fin(s, m, e)
    ELSE LET q == m \div 10
             r == m % 10
         IN  IF q >= MantHi
             THEN Norm(s, q, e + 1, IF r # 0 \/ st # 0 THEN 1 ELSE 0)
             ELSE LET up == r > 5 \/ (r = 5 /\ (st # 0 \/ q % 2 = 1))
                      m2 == IF up THEN q + 1 ELSE q
                  IN  IF m2 = MantHi THEN Fin(s, MantLo, e + 2)
                      ELSE Fin(s, m2, e + 1)

\* The f64 nearest to the integer n.
FromInt(n) == IF n < 0 THEN Norm(-1, -n, 0, 0) ELSE Norm(1, n, 0, 0)

\* Unary minus.
Neg(a) == IF IsNaN(a) \/ IsZero(a) THEN a ELSE [a EXCEPT !.s = -a.s]

\* f64::abs.
Abs(a) == IF IsNaN(a) THEN a ELSE [a EXCEPT !.s = 1]

\* a * 10^d for d >= 0 (exact; used on mantissas only).
RECURSIVE Pow10(_)
Pow10(d) == IF d = 0 THEN 1 ELSE 10 * Pow10(d - 1)

\* Sum of two finite values: the one of larger magnitude gets one guard
\* digit, the other is shifted right under it with a sticky bit.
AddFin(a, b) ==
    IF a.m = 0 THEN b
    ELSE IF b.m = 0 THEN a
    ELSE LET big == IF a.e > b.e \/ (a.e = b.e /\ a.m >= b.m) THEN a ELSE b
             sml == IF a.e > b.e \/ (a.e = b.e /\ a.m >= b.m) THEN b ELSE a
             d   == big.e - sml.e
         IN  IF d > Digits + 1 THEN big
             ELSE LET A   == big.m * 10
                      p   == Pow10(d)
                      B   == (sml.m * 10) \div p
                      st  == IF (sml.m * 10) % p # 0 THEN 1 ELSE 0
                  IN  IF big.s = sml.s
                      THEN Norm(big.s, A + B, big.e - 1, st)
                      ELSE Norm(big.s, A - B - st, big.e - 1, st)

\* a + b.
Add(a, b) ==
    IF IsNaN(a) \/ IsNaN(b) THEN NaN
    ELSE IF IsInf(a) /\ IsInf(b) THEN (IF a.s = b.s THEN a ELSE NaN)
    ELSE IF IsInf(a) THEN a
    ELSE IF IsInf(b) THEN b
    ELSE AddFin(a, b)

\* a - b.
Sub(a, b) == Add(a, Neg(b))

\* a * b: the exact 2*Digits-digit product of the mantissas, from half-width
\* limbs, rounded to Digits digits.
Mul(a, b) ==
    IF IsNaN(a) \/ IsNaN(b) THEN NaN
    ELSE IF IsInf(a) \/ IsInf(b)
         THEN (IF IsZero(a) \/ IsZero(b) THEN NaN ELSE Inf(a.s * b.s))
    ELSE IF a.m = 0 \/ b.m = 0 THEN Zero
    ELSE LET ah  == a.m \div HalfBase
             al  == a.m % HalfBase
             bh  == b.m \div HalfBase
             bl  == b.m % HalfBase
             mid == ah * bl + al * bh
             L   == (mid % HalfBase) * HalfBase + al * bl
             H   == ah * bh + mid \div HalfBase + L \div MantHi
             rem == L % MantHi
         IN  IF H < MantLo
             THEN Norm(a.s * b.s, H * 100 + rem \div (MantHi \div 100),
                       a.e + b.e + Digits - 2,
                       IF rem % (MantHi \div 100) # 0 THEN 1 ELSE 0)
             ELSE Norm(a.s * b.s, H * 10 + rem \div (MantHi \div 10),
                       a.e + b.e + Digits - 1,
                       IF rem % (MantHi \div 10) # 0 THEN 1 ELSE 0)

\* Long division: n more digits of q.r / d, as <<quotient, remainder>>.
RECURSIVE LongDiv(_, _, _, _)
LongDiv(q, r, d, n) ==
    IF n = 0 THEN <<q, r>>
    ELSE LongDiv(q * 10 + (r * 10) \div d, (r * 10) % d, d, n - 1)

\* a / b.
Div(a, b) ==
    IF IsNaN(a) \/ IsNaN(b) THEN NaN
    ELSE IF IsInf(a) THEN (IF IsInf(b) THEN NaN ELSE Inf(a.s * b.s))
    ELSE IF IsInf(b) THEN Zero
    ELSE IF b.m = 0 THEN (IF a.m = 0 THEN NaN ELSE Inf(a.s))
    ELSE IF a.m = 0 THEN Zero
    ELSE LET n  == IF a.m >= b.m THEN Digits ELSE Digits + 1
             qr == LongDiv(a.m \div b.m, a.m % b.m, b.m, n)
         IN  Norm(a.s * b.s, qr[1], a.e - b.e - n, IF qr[2] # 0 THEN 1 ELSE 0)

\* a < b (false when either is NaN).
Lt(a, b) ==
    LET d == Sub(a, b)
    IN  /\ ~IsNaN(a) /\ ~IsNaN(b)
        /\ IF IsNaN(d) THEN FALSE      \* inf - inf of the same sign: equal
           ELSE d.s = -1 /\ ~IsZero(d)

\* a <= b (false when either is NaN).
Le(a, b) == ~IsNaN(a) /\ ~IsNaN(b) /\ ~Lt(b, a)

\* f64::powi(2).
Sq(a) == Mul(a, a)

\* f64::exp, tabulated (rounded to Digits digits) at the arguments that the
\* coordinates and length scales of this model produce.
Exp(a) ==
    IF IsNaN(a) THEN NaN
    ELSE IF IsInf(a) THEN (IF a.s = 1 THEN a ELSE Zero)
    ELSE IF IsZero(a) THEN FromInt(1)
    ELSE CASE a = Fin(-1, 50000000, -8)  -> Fin(1, 60653066, -8)    \* exp(-0.5)
           [] a = Fin(-1, 20000000, -7)  -> Fin(1, 13533528, -8)    \* exp(-2)
           [] a = Fin(-1, 45000000, -7)  -> Fin(1, 11108997, -9)    \* exp(-4.5)
           [] a = Fin(-1, 80000000, -7)  -> Fin(1, 33546263, -11)   \* exp(-8)
           [] a = Fin(-1, 12500000, -6)  -> Fin(1, 37266532, -13)   \* exp(-12.5)


(* --------------------- nalgebra DVector / DMatrix ---------------------- *)

\* A sequence with every element evaluated.
Eval(f) == f \o <<>>

\* A DMatrix: r rows, c columns, a[i][j] the entry of row i and column j.
Mat(r, c, a) == [r |-> r, c |-> c, a |-> a]

\* DMatrix::zeros / from_fn.
MatFn(r, c, F(_, _)) ==
    Mat(r, c, Eval([i \in 1..r |-> Eval([j \in 1..c |-> F(i, j)])]))

\* A DVector as the column matrix nalgebra takes it for.
ColOf(v) == Mat(Len(v), 1, Eval([i \in 1..Len(v) |-> <<v[i]>>]))

\* Column j of M as a DVector.
VecOf(M, j) == Eval([i \in 1..M.r |-> M.a[i][j]])

\* DMatrix::identity.
IdentityEntry(i, j) == IF i = j THEN FromInt(1) ELSE Zero
Identity(r, c) == MatFn(r, c, IdentityEntry)

\* DMatrix::transpose.
Transpose(M) == Mat(M.c, M.r, Eval([i \in 1..M.c |-> Eval([j \in 1..M.r |-> M.a[j][i]])]))

\* matrix * scalar.
Scale(M, k) == Mat(M.r, M.c, Eval([i \in 1..M.r |-> Eval([j \in 1..M.c |-> Mul(M.a[i][j], k)])]))

\* matrix + matrix and matrix - matrix (shapes equal at every use).
MatAdd(A, B) == Mat(A.r, A.c, Eval([i \in 1..A.r |-> Eval([j \in 1..A.c |-> Add(A.a[i][j], B.a[i][j])])]))

MatSub(A, B) == Mat(A.r, A.c, Eval([i \in 1..A.r |-> Eval([j \in 1..A.c |-> Sub(A.a[i][j], B.a[i][j])])]))

\* Entry (i, j) of A * B: the sum over k = 1..n, accumulated from zero.
RECURSIVE Dot(_, _, _, _, _)
Dot(A, B, i, j, n) ==
    IF n = 0 THEN Zero
    ELSE Add(Dot(A, B, i, j, n - 1), Mul(A.a[i][n], B.a[n][j]))

MatMul(A, B) ==
    Mat(A.r, B.c, Eval([i \in 1..A.r |-> Eval([j \in 1..B.c |-> Dot(A, B, i, j, A.c)])]))

\* DMatrix::diagonal.
Diagonal(M) == Eval([i \in 1..M.r |-> M.a[i][i]])

\* M without row i and column j.
Skip(k, i) == IF k < i THEN k ELSE k + 1
Minor(M, i, j) ==
    Mat(M.r - 1, M.c - 1,
        Eval([p \in 1..(M.r - 1) |-> Eval([q \in 1..(M.c - 1) |-> M.a[Skip(p, i)][Skip(q, j)]])]))

\* Determinant of a square matrix, expanded along the first row.
RECURSIVE Det(_)
RECURSIVE DetRow(_, _)
DetRow(M, j) ==
    IF j = 0 THEN Zero
    ELSE LET t == Mul(M.a[1][j], Det(Minor(M, 1, j)))
         IN  Add(DetRow(M, j - 1), IF j % 2 = 1 THEN t ELSE Neg(t))
Det(M) ==
    IF M.r = 0 THEN FromInt(1)
    ELSE IF M.r = 1 THEN M.a[1][1]
    ELSE DetRow(M, M.c)

\* DMatrix::try_inverse: None when the determinant is zero, else the
\* cofactors over the determinant. <<>> is None, <<m>> is Some(m).
Cofactor(M, i, j) ==
    LET d == Det(Minor(M, i, j)) IN IF (i + j) % 2 = 0 THEN d ELSE Neg(d)
Adjugate(M, det) ==
    Mat(M.r, M.c,
        Eval([i \in 1..M.r |-> Eval([j \in 1..M.c |-> Div(Cofactor(M, j, i), det)])]))
InverseBy(M, det) == IF IsZero(det) THEN <<>> ELSE <<Adjugate(M, det)>>
try_inverse(M) == IF M.r = 0 THEN <<M>> ELSE InverseBy(M, Det(M))

(* ------------------------------ gp.rs ---------------------------------- *)

\* const EPS: f64 = 1e-6.
EPS == Fin(1, MantLo, -6 - (Digits - 1))

\* The literal -0.5.
MinusHalf == Fin(-1, 5 * MantLo, -Digits)

\* struct RbfKernel.
RbfKernel(sigma, length_scale) == [sigma |-> sigma, length_scale |-> length_scale]

\* RbfKernel::compute.
compute(self, x, x2) ==
    Mul(self.sigma,
        Exp(Div(Mul(MinusHalf, Sq(Sub(x, x2))), Sq(self.length_scale))))

\* GpKernel::compute_matrix.
compute_matrix(self, x, x2) ==
    Mat(Len(x), Len(x2),
        Eval([i \in 1..Len(x) |-> Eval([j \in 1..Len(x2) |-> compute(self, x[i], x2[j])])]))

\* The matrix GaussianProcess::new inverts: K + I * (noise_sigma + EPS).
Regularized(x, kernel, noise_sigma) ==
    MatAdd(compute_matrix(kernel, x, x),
           Scale(Identity(Len(x), Len(x)), Add(noise_sigma, EPS)))

\* struct GaussianProcess.
GaussianProcess(kernel, x, y, inv, noise_sigma) ==
    [kernel |-> kernel, x |-> x, y |-> y,
     input_cov_matrix_inv |-> inv, noise_sigma |-> noise_sigma]

\* Option::expect("should be invertible") and the struct literal after it:
\* <<"Fitted", model>>, or <<"panic">> when the inverse is None.
expect(inverse, x, y, kernel, noise_sigma) ==
    IF inverse = <<>> THEN <<"panic">>
    ELSE <<"Fitted", GaussianProcess(kernel, x, y, inverse[1], noise_sigma)>>

\* GaussianProcess::new. It has no other way to end than these two.
new(x, y, kernel, noise_sigma) ==
    expect(try_inverse(Regularized(x, kernel, noise_sigma)), x, y, kernel, noise_sigma)

\* transpose(k_star) * input_cov_matrix_inv, the left factor of both products.
Gain(self, k_star) == MatMul(Transpose(k_star), self.input_cov_matrix_inv)

\* Covariance with the sign of the correction flipped: k_star_star + gain * k_star.
CovarianceSignFlipped(k_star_star, gain, k_star) ==
    MatAdd(MatAdd(k_star_star, MatMul(gain, k_star)),
           Scale(Identity(k_star_star.r, k_star_star.c), EPS))

\* The covariance of predict: k_star_star - gain * k_star, plus I * EPS.
Covariance(k_star_star, gain, k_star) ==
    LET covariance == MatSub(k_star_star, MatMul(gain, k_star))
    IN  MatAdd(covariance, Scale(Identity(covariance.r, covariance.c), EPS))

\* Whether predict returns: the products of its mean, transpose(k_star) *
\* input_cov_matrix_inv * y, panic on mismatched dimensions. The shape of
\* k_star is len(self.x) by the number of query points.
predict_returns(self) ==
    /\ Len(self.x) = self.input_cov_matrix_inv.r
    /\ self.input_cov_matrix_inv.c = Len(self.y)

\* GaussianProcess::predict: <<"ok", mean, variance>> or <<"panic">>.
predict(self, x) ==
    IF ~predict_returns(self) THEN <<"panic">>
    ELSE LET k_star      == compute_matrix(self.kernel, self.x, x)
             k_star_star == compute_matrix(self.kernel, x, x)
             gain        == Gain(self, k_star)
         IN  <<"ok",
               VecOf(MatMul(gain, ColOf(self.y)), 1),
               Diagonal(Covariance(k_star_star, gain, k_star))>>

\* self_after_predict for a predict that keeps its mean in self.y.
self_after_predict_storing(self, x) ==
    IF predict_returns(self) THEN [self EXCEPT !.y = predict(self, x)[2]] ELSE self

\* predict takes &self: the model after the call is the model before it.
self_after_predict(self, x) == self

(* ------------------------------ state ---------------------------------- *)

VARIABLES
    \* struct App (app.rs); gp is <<>> for None and <<model>> for Some(model)
    x, y, kernel_length_scale, kernel_sigma, noise_sigma, gp,
    started,     \* App::update has run at least once
    served,      \* the predict call of the last update: "none", "fresh", "stale"
    pairs,       \* history: the pairs as they were added, minus the removed ones
    \* a caller of the library (SpecGP)
    args,        \* the arguments given to GaussianProcess::new
    outcome,     \* "none" before the call, then how new ended
    model,       \* the instance new returned, as the caller holds it
    built,       \* history: that instance as it was when new returned
    pred,        \* <<>>, or the last predict call: <<[query, res]>>
    calls,       \* number of predict calls made
    \* both
    crashed      \* a panic has ended the process

appVars == <<x, y, kernel_length_scale, kernel_sigma, noise_sigma, gp,
             started, served, pairs>>

libVars == <<args, outcome, model, built, pred, calls>>

vars == <<appVars, libVars, crashed>>

\* All sequences over S of length at most n.
RECURSIVE SeqsUpTo(_, _)
SeqsUpTo(S, n) ==
    IF n = 0 THEN {<<>>}
    ELSE LET shorter == SeqsUpTo(S, n - 1)
         IN  shorter \cup {Append(s, e) : s \in {t \in shorter : Len(t) = n - 1}, e \in S}

\* s without its element i (Vec::remove, with i counted from 1).
Remove(s, i) == SubSeq(s, 1, i - 1) \o SubSeq(s, i + 1, Len(s))

(* ------------------------- a caller of gp.rs --------------------------- *)

\* Longest training sequence, longest query and number of predict calls tried.
MaxTrain == 2

MaxQuery == 2

MaxCalls == 2

TrainX == {FromInt(1), FromInt(2)}

TrainY == {FromInt(1), FromInt(3)}

QueryX == {FromInt(1), FromInt(2)}

\* 1e20 absorbs EPS, as it does in binary64.
Sigmas == {FromInt(-1), Zero, FromInt(1), Fin(1, MantLo, 20 - (Digits - 1))}

LengthScales == {Zero, FromInt(1)}

Tenth == Fin(1, MantLo, -1 - (Digits - 1))

NoiseSigmas == {Neg(EPS), Zero, Tenth}

NoArgs == [x |-> <<>>, y |-> <<>>, kernel |-> RbfKernel(Zero, Zero), noise_sigma |-> Zero]

LibIdle ==
    /\ args = NoArgs /\ outcome = "none" /\ model = <<>> /\ built = <<>>
    /\ pred = <<>> /\ calls = 0

\* GaussianProcess::new(&x, &y, kernel, noise_sigma).
New ==
    /\ outcome = "none" /\ ~crashed
    /\ \E r \in {new(args.x, args.y, args.kernel, args.noise_sigma)} :
           /\ outcome' = r[1]
           /\ model' = IF r[1] = "Fitted" THEN <<r[2]>> ELSE <<>>
           /\ built' = model'
           /\ crashed' = (r[1] = "panic")
    /\ UNCHANGED <<args, pred, calls, appVars>>

\* gp.predict(&query) on the instance new returned.
Predict ==
    /\ outcome = "Fitted" /\ ~crashed /\ calls < MaxCalls
    /\ \E query \in SeqsUpTo(QueryX, MaxQuery) :
         \E res \in {predict(model[1], query)} :
             /\ pred' = <<[query |-> query, res |-> res]>>
             /\ model' = <<self_after_predict(model[1], query)>>
             /\ crashed' = (res[1] = "panic")
    /\ calls' = calls + 1
    /\ UNCHANGED <<args, outcome, built, appVars>>

(* ------------------------------ app.rs --------------------------------- *)

\* Most training points held at once (a click that would add one more is
\* not taken).
MaxPoints == 3

\* impl Default for App.
DefaultApp ==
    [x |-> <<FromInt(1), FromInt(2), FromInt(6)>>,
     y |-> <<FromInt(1), FromInt(1), FromInt(-1)>>,
     kernel_sigma |-> FromInt(1),
     kernel_length_scale |-> FromInt(1),
     noise_sigma |-> Tenth]

\* States an earlier run has saved (App::save) and App::new loads back.
SavedApps ==
    {[x |-> <<>>, y |-> <<>>, kernel_sigma |-> FromInt(1),
      kernel_length_scale |-> FromInt(1), noise_sigma |-> Zero],
     [x |-> <<FromInt(6)>>, y |-> <<FromInt(1)>>, kernel_sigma |-> FromInt(10),
      kernel_length_scale |-> Zero, noise_sigma |-> Tenth]}

\* Values the sliders (range 0.0..=10.0) are moved to.
SliderLengthScales == {Zero, FromInt(1)}

SliderSigmas == {Zero, FromInt(1), FromInt(10)}

SliderNoises == {Zero, Tenth}

\* Plot coordinates the pointer is at when the plot is clicked.
Pointers == {[x |-> FromInt(1), y |-> FromInt(-1)], [x |-> FromInt(2), y |-> FromInt(1)]}

\* What the pointer hovers: nothing, the training points, or one of the lines.
Hovered == {"none", "training_points", "line"}

\* One frame's input: a slider is <<>> (not touched) or <<v>> (moved to v).
NoInput ==
    [length_scale |-> <<>>, sigma |-> <<>>, noise |-> <<>>, clear |-> FALSE,
     clicked |-> FALSE, hovered |-> "none", pointer |-> <<>>]

\* Slider::new(&mut value, 0.0..=10.0): the value after the widget ran.
Slide(value, in) == IF in = <<>> THEN value ELSE in[1]

\* The squared distance of training point i to the pointer.
Dist2(xs, ys, pos, i) == Add(Sq(Sub(xs[i], pos.x)), Sq(Sub(ys[i], pos.y)))

\* min_by over the zipped points: the first index of least distance, 0 for
\* no point at all (indices from 1).
RECURSIVE Nearest(_, _, _, _)
Nearest(xs, ys, pos, n) ==
    IF n = 0 THEN 0
    ELSE IF n = 1 THEN 1
    ELSE LET best == Nearest(xs, ys, pos, n - 1)
         IN  IF Lt(Dist2(xs, ys, pos, n), Dist2(xs, ys, pos, best)) THEN n ELSE best

\* partial_cmp(..).unwrap() panics when a distance is NaN and is compared.
NearestPanics(xs, ys, pos, n) ==
    n >= 2 /\ \E i \in 1..n : IsNaN(Dist2(xs, ys, pos, i))

Min(a, b) == IF a < b THEN a ELSE b

\* RemovePoint without the second remove.
RemovePointXOnly(xs, ys, index) == [x |-> Remove(xs, index), y |-> ys]

\* self.x.remove(index); self.y.remove(index).
RemovePoint(xs, ys, index) == [x |-> Remove(xs, index), y |-> Remove(ys, index)]

\* self.x.push(p.x); self.y.push(p.y).
PushPoint(xs, ys, p) == [x |-> Append(xs, p.x), y |-> Append(ys, p.y)]

\* NeedsRebuild without `changed ||`.
NeedsRebuildFirstOnly(changed, held) == held = <<>>

\* if changed || self.gp.is_none().
NeedsRebuild(changed, held) == changed \/ held = <<>>

\* Whether model m was built from exactly the inputs that self holds now.
BuiltFrom(m, self) ==
    /\ m.x = self.x /\ m.y = self.y /\ m.noise_sigma = self.noise_sigma
    /\ m.kernel = RbfKernel(self.kernel_sigma, self.kernel_length_scale)

\* The application as one value: the fields of App, the local `changed` of
\* update, and the history kept with them.
Self ==
    [x |-> x, y |-> y, kernel_length_scale |-> kernel_length_scale,
     kernel_sigma |-> kernel_sigma, noise_sigma |-> noise_sigma, gp |-> gp,
     changed |-> FALSE, served |-> served, pairs |-> pairs, crashed |-> crashed]

\* update, first part: the three sliders and "Clear all Points".
Widgets(self, in) ==
    [self EXCEPT
       !.kernel_length_scale = Slide(@, in.length_scale),
       !.kernel_sigma = Slide(@, in.sigma),
       !.noise_sigma = Slide(@, in.noise),
       !.x = IF in.clear THEN <<>> ELSE @,
       !.y = IF in.clear THEN <<>> ELSE @,
       !.pairs = IF in.clear THEN <<>> ELSE @,
       !.changed = \/ Slide(self.kernel_length_scale, in.length_scale) # self.kernel_length_scale
                   \/ Slide(self.kernel_sigma, in.sigma) # self.kernel_sigma
                   \/ Slide(self.noise_sigma, in.noise) # self.noise_sigma
                   \/ in.clear]

\* A click on the training points: the nearest one, index, is removed.
RemoveNearest(self, index) ==
    IF index = 0 THEN self
    ELSE [self EXCEPT !.x = RemovePoint(self.x, self.y, index).x,
                      !.y = RemovePoint(self.x, self.y, index).y,
                      !.pairs = Remove(@, index),
                      !.changed = TRUE]

\* The click handling of update.
Click(self, in) ==
    IF ~in.clicked THEN self
    ELSE IF in.hovered # "none" /\ in.pointer # <<>>
    THEN IF in.hovered # "training_points" THEN self
         ELSE IF NearestPanics(self.x, self.y, in.pointer[1], Min(Len(self.x), Len(self.y)))
         THEN [self EXCEPT !.crashed = TRUE]
         ELSE RemoveNearest(self, Nearest(self.x, self.y, in.pointer[1],
                                          Min(Len(self.x), Len(self.y))))
    ELSE IF in.pointer # <<>>
    THEN [self EXCEPT !.x = PushPoint(self.x, self.y, in.pointer[1]).x,
                      !.y = PushPoint(self.x, self.y, in.pointer[1]).y,
                      !.pairs = Append(@, <<in.pointer[1].x, in.pointer[1].y>>),
                      !.changed = TRUE]
    ELSE self

\* update, second part: with a model held, predict on the grid, draw the
\* plot and handle a click on it. The predicted values are drawn and dropped.
Plot(self, in) ==
    IF self.gp = <<>> THEN [self EXCEPT !.served = "none"]
    ELSE IF ~predict_returns(self.gp[1]) THEN [self EXCEPT !.crashed = TRUE]
    ELSE Click([self EXCEPT !.served = IF BuiltFrom(self.gp[1], self) THEN "fresh"
                                       ELSE "stale"],
               in)

\* self.gp = Some(r), unless new panicked.
Assign(self, r) ==
    IF r[1] = "Fitted" THEN [self EXCEPT !.gp = <<r[2]>>]
    ELSE [self EXCEPT !.crashed = TRUE]

\* update, last part: the rebuild.
Rebuild(self) ==
    IF self.crashed \/ ~NeedsRebuild(self.changed, self.gp) THEN self
    ELSE Assign(self, new(self.x, self.y,
                          RbfKernel(self.kernel_sigma, self.kernel_length_scale),
                          self.noise_sigma))

\* App::update: one frame with input in.
update(self, in) == Rebuild(Plot(Widgets(self, in), in))

Update(in) ==
    /\ ~crashed
    /\ \E out \in {update(Self, in)} :
         /\ Len(out.x) <= MaxPoints
         /\ x' = out.x /\ y' = out.y
         /\ kernel_length_scale' = out.kernel_length_scale
         /\ kernel_sigma' = out.kernel_sigma
         /\ noise_sigma' = out.noise_sigma
         /\ gp' = out.gp
         /\ served' = out.served
         /\ pairs' = out.pairs
         /\ crashed' = out.crashed
    /\ started' = TRUE
    /\ UNCHANGED libVars

\* A frame without input.
Repaint == \E in \in {NoInput} : Update(in)

\* A frame in which one slider is moved.
MoveLengthScale ==
    \E v \in SliderLengthScales \ {kernel_length_scale} :
        Update([NoInput EXCEPT !.length_scale = <<v>>])

MoveSigma ==
    \E v \in SliderSigmas \ {kernel_sigma} : Update([NoInput EXCEPT !.sigma = <<v>>])

MoveNoise ==
    \E v \in SliderNoises \ {noise_sigma} : Update([NoInput EXCEPT !.noise = <<v>>])

\* A frame in which "Clear all Points" is clicked.
ClearAllPoints == \E in \in {[NoInput EXCEPT !.clear = TRUE]} : Update(in)

\* A frame in which the plot is clicked.
ClickPlot ==
    \E h \in Hovered, p \in {<<>>} \cup {<<q>> : q \in Pointers} :
        Update([NoInput EXCEPT !.clicked = TRUE, !.hovered = h, !.pointer = p])

\* A frame in which several widgets report at once.
Together ==
    \E v \in SliderSigmas \ {kernel_sigma}, c \in BOOLEAN, p \in Pointers :
        Update([NoInput EXCEPT !.sigma = <<v>>, !.clear = c, !.clicked = TRUE,
                               !.pointer = <<p>>])

(* --------------------------- specifications ---------------------------- *)

\* App::new: the default state, or a saved one; gp is not persisted.
Init ==
    /\ \E a \in {DefaultApp} \cup SavedApps :
         /\ x = a.x /\ y = a.y
         /\ kernel_length_scale = a.kernel_length_scale
         /\ kernel_sigma = a.kernel_sigma
         /\ noise_sigma = a.noise_sigma
         /\ pairs = [i \in 1..Len(a.x) |-> <<a.x[i], a.y[i]>>]
    /\ gp = <<>> /\ started = FALSE /\ served = "none" /\ crashed = FALSE
    /\ LibIdle

Next ==
    \/ Repaint
    \/ MoveLengthScale
    \/ MoveSigma
    \/ MoveNoise
    \/ ClearAllPoints
    \/ ClickPlot
    \/ Together

Spec == Init /\ [][Next]_vars

\* The caller has picked the arguments; the application is not running.
InitGP ==
    /\ \E tx \in SeqsUpTo(TrainX, MaxTrain), ty \in SeqsUpTo(TrainY, MaxTrain),
          sigma \in Sigmas, length_scale \in LengthScales, noise \in NoiseSigmas :
         args = [x |-> tx, y |-> ty, kernel |-> RbfKernel(sigma, length_scale),
                 noise_sigma |-> noise]
    /\ outcome = "none" /\ model = <<>> /\ built = <<>> /\ pred = <<>> /\ calls = 0
    /\ x = DefaultApp.x /\ y = DefaultApp.y
    /\ kernel_length_scale = DefaultApp.kernel_length_scale
    /\ kernel_sigma = DefaultApp.kernel_sigma
    /\ noise_sigma = DefaultApp.noise_sigma
    /\ pairs = <<>>
    /\ gp = <<>> /\ started = FALSE /\ served = "none" /\ crashed = FALSE

NextGP == New \/ Predict

SpecGP == InitGP /\ [][NextGP]_vars

(* ------------------------- GaussianProcess::new ------------------------ *)

\* new has been called and has ended, one way or the other.
Called == outcome # "none"

SameLength == Len(args.x) = Len(args.y)

\* sigma >= 0, length_scale > 0, noise_sigma >= 0.
InDomain ==
    /\ Le(Zero, args.kernel.sigma)
    /\ Lt(Zero, args.kernel.length_scale)
    /\ Le(Zero, args.noise_sigma)

\* C1: with len(x) # len(y), new fails with DimensionMismatch and produces
\* no fitted model.
C1_DimensionMismatch ==
    (Called /\ ~SameLength) => (outcome = "DimensionMismatch" /\ model = <<>>)

\* C2: with a hyperparameter outside its domain (length_scale <= 0, sigma < 0
\* or noise_sigma < 0), new is rejected with ConfigurationError and produces
\* no fitted model.
C2_ConfigurationError ==
    (Called /\ SameLength /\ ~InDomain)
        => (outcome = "ConfigurationError" /\ model = <<>>)

\* C3: when the inversion of K + (noise_sigma + EPS) * I fails, new returns
\* NotInvertible to its caller and the process keeps running.
C3_NotInvertible ==
    (/\ Called /\ SameLength /\ InDomain
     /\ try_inverse(Regularized(args.x, args.kernel, args.noise_sigma)) = <<>>)
        => (outcome = "NotInvertible" /\ ~crashed)

(* ----------------------- GaussianProcess::predict ---------------------- *)

OneMillionth == Fin(1, MantLo, -6 - (Digits - 1))

OneThousandth == Fin(1, MantLo, -3 - (Digits - 1))

\* One training pair, a valid RBF kernel and noise_sigma = 0.
SinglePair ==
    /\ Len(args.x) = 1 /\ Len(args.y) = 1
    /\ Le(Zero, args.kernel.sigma) /\ Lt(Zero, args.kernel.length_scale)
    /\ args.noise_sigma = Zero

\* ... fitted, and predicted at the training input.
RoundTrip == SinglePair /\ pred # <<>> /\ pred[1].query = <<args.x[1]>>

MeanOff == Abs(Sub(pred[1].res[2][1], args.y[1]))

\* C6 as written: the round trip gives a mean within 1e-6 of y0 and a
\* variance within 1e-3 of 0.
C6_RoundTripExact ==
    /\ (SinglePair /\ Called) => outcome = "Fitted"
    /\ RoundTrip => /\ pred[1].res[1] = "ok"
                    /\ Le(MeanOff, OneMillionth)
                    /\ Le(Abs(pred[1].res[3][1]), OneThousandth)

\* C6 as amended: for sigma up to 10 the round trip gives a mean within
\* 2 * EPS * |y0| / (sigma + EPS) of y0 (the jitter shrinks the mean by the
\* factor sigma / (sigma + EPS)) and a variance within 1e-3 of 0.
C6_RoundTripJitter ==
    /\ (SinglePair /\ Called) => outcome = "Fitted"
    /\ (RoundTrip /\ Le(args.kernel.sigma, FromInt(10)))
         => /\ pred[1].res[1] = "ok"
            /\ Le(MeanOff, Div(Mul(Mul(FromInt(2), EPS), Abs(args.y[1])),
                               Add(args.kernel.sigma, EPS)))
            /\ Le(Abs(pred[1].res[3][1]), OneThousandth)

\* C6's case: sigma = 1, y0 = 3, and the mean predicted at x0 is not y0.
C6_Witness ==
    /\ RoundTrip /\ args.kernel.sigma = FromInt(1) /\ args.y[1] = FromInt(3)
    /\ pred[1].res[1] = "ok" /\ pred[1].res[2][1] # args.y[1]
    /\ Lt(OneMillionth, MeanOff)

\* C7: on every instance new returned, predict returns (no panic) a mean and
\* a variance with one entry per query point.
C7_PredictTotal ==
    (outcome = "Fitted" /\ pred # <<>>)
        => /\ pred[1].res[1] = "ok"
           /\ Len(pred[1].res[2]) = Len(pred[1].query)
           /\ Len(pred[1].res[3]) = Len(pred[1].query)

AppNeverPanics == ~crashed

\* C5: no predict call is served by a model built from training data or
\* hyperparameters older than the current ones.
C5_PredictNeverStale == served # "stale"

\* C9: x and y have the same length and (x[i], y[i]) is, at every index, a
\* pair that was added together.
C9_PairsKept ==
    /\ Len(x) = Len(y)
    /\ Len(pairs) = Len(x)
    /\ \A i \in 1..Len(x) : <<x[i], y[i]>> = pairs[i]

\* C9's case: the middle default point was removed and a point was added.
C9_Witness ==
    /\ x = <<FromInt(1), FromInt(6), FromInt(1)>>
    /\ y = <<FromInt(1), FromInt(-1), FromInt(-1)>>

\* C10: after every update that returned, gp holds a model built from the
\* current x, y, noise_sigma, kernel_sigma and kernel_length_scale.
C10_ModelCurrent ==
    (started /\ ~crashed) => (gp # <<>> /\ BuiltFrom(gp[1], Self))

\* C10's case: updates have changed the training set and moved the sigma
\* slider, a later update has predicted, and the held model has both changes.
C10_Witness ==
    /\ started /\ ~crashed /\ gp # <<>> /\ served = "fresh"
    /\ x = <<FromInt(2), FromInt(6)>> /\ gp[1].x = x /\ gp[1].y = y
    /\ kernel_sigma = FromInt(10) /\ gp[1].kernel.sigma = kernel_sigma

=============================================================================
